---- MODULE Spec2Model ----
(***************************************************************************)
(* Result aggregation of recipes/MOABB/parse_results.py (Spec, SpecLoad,   *)
(* SpecScenario), run_on_main of speechbrain/utils/distributed.py          *)
(* (SpecDDP) and the stage ends of MOABBBrain in recipes/MOABB/train.py    *)
(* (SpecBrain).                                                            *)
(*                                                                         *)
(* A run of aggregate_metrics walks a results root                         *)
(*   root/<paradigm>/<fold>/[<session>/[<subject>/]]test_metrics.pkl       *)
(* with one parser and one aggregator per paradigm, pools the aggregated   *)
(* sequences and returns their mean and standard deviation.                *)
(*                                                                         *)
(* Numbers.  Metric values are exact rationals <<n, d>> in lowest terms    *)
(* with d > 0; the float NaN that numpy returns for an empty or poisoned   *)
(* mean is <<0, 0>>.  Rounding of binary floating point is not modelled.   *)
(* The square root of numpy.std is kept symbolic: Sqrt(r) is [sqrt |-> r]. *)
(*                                                                         *)
(* Directories.  A directory is a function from the names of its entries   *)
(* to their contents.  Fold, session and subject names are naturals whose  *)
(* numeric order stands for the lexicographic order of the names; the      *)
(* entries of the results root are strings ordered by NameOrder.           *)
(***************************************************************************)
EXTENDS Integers, Sequences, FiniteSets, TLC

\* ------------------------------------------------------------------ bounds
\* Entries of a results root, session names, and directories (folds,
\* sessions, subjects) below the entries of a root.
MaxEntries == 2
MaxSess == 2
MaxNodes == 4

\* ----------------------------------------------------------------- numbers
NaN == <<0, 0>>

IsNaN(x) == x[2] = 0

RECURSIVE GCD(_, _)
GCD(a, b) == IF b = 0 THEN a ELSE GCD(b, a % b)

Norm(n, d) == LET g == GCD(n, d) IN <<n \div g, d \div g>>

Num(n, d) == Norm(n, d)

Add(a, b) ==
    IF IsNaN(a) \/ IsNaN(b) THEN NaN
    ELSE Norm(a[1] * b[2] + b[1] * a[2], a[2] * b[2])

\* x / n for a count n; numpy divides by the length and yields nan for 0/0.
DivByCount(x, n) ==
    IF IsNaN(x) \/ n = 0 THEN NaN ELSE Norm(x[1], x[2] * n)

\* |a - b|^2
SqDiff(a, b) ==
    IF IsNaN(a) \/ IsNaN(b) THEN NaN
    ELSE LET t == a[1] * b[2] - b[1] * a[2]
         IN  Norm(t * t, a[2] * b[2] * a[2] * b[2])

RECURSIVE Sum(_)
Sum(xs) == IF xs = <<>> THEN <<0, 1>> ELSE Add(xs[1], Sum(Tail(xs)))

\* numpy.mean over a list: sum / len, nan for the empty list (a warning,
\* not an exception) and nan as soon as one element is nan.
mean(xs) == DivByCount(Sum(xs), Len(xs))

Sqrt(r) == [sqrt |-> r]

PopVariance(xs) ==
    LET mu == mean(xs)
    IN  DivByCount(Sum([j \in 1..Len(xs) |-> SqDiff(xs[j], mu)]), Len(xs))

\* The standard deviation with ddof = 1.
SampleStd(xs) ==
    LET mu == mean(xs)
    IN  Sqrt(IF Len(xs) <= 1 THEN NaN
             ELSE DivByCount(Sum([j \in 1..Len(xs) |-> SqDiff(xs[j], mu)]),
                             Len(xs) - 1))

\* numpy.std with its default ddof = 0: the population standard deviation.
std(xs) == Sqrt(PopVariance(xs))

\* ------------------------------------------------------------ sorted order
RECURSIVE SortedNat(_)
SortedNat(S) ==
    IF S = {} THEN <<>>
    ELSE LET lo == CHOOSE x \in S : \A y \in S : x <= y
         IN  <<lo>> \o SortedNat(S \ {lo})

\* sorted(dir.iterdir()) for a directory whose entry names are naturals.
sorted(dir) == SortedNat(DOMAIN dir)

Range(s) == {s[j] : j \in DOMAIN s}

Perms(S) == {p \in [1..Cardinality(S) -> S] : Range(p) = S}


\* ------------------------------------------------------- metric artifacts
\* stat_metrics: the metric names given on the command line (sys.argv[2:]).
stat_metrics == <<"acc", "loss">>

metric_file == "test_metrics.pkl"

\* A metric file on disk.  kind "pickle" deserializes to the mapping data (a
\* set of <<metric name, value>> pairs); the other kinds make open() or
\* pickle.load() raise.
FailureKinds == {"missing", "unreadable", "corrupt"}

File(kind, data) == [kind |-> kind, data |-> data]

\* str(e) of the exception raised for each failure kind.
FailureText(kind) ==
    CASE kind = "missing" -> "No such file or directory"
      [] kind = "unreadable" -> "Permission denied"
      [] OTHER -> "pickle data was truncated"

None == [none |-> TRUE, data |-> {}]

Some(data) == [none |-> FALSE, data |-> data]

FilePath(dir) == [dir |-> dir, file |-> metric_file]

Line(tag, at, file, text) == [tag |-> tag, at |-> at, file |-> file, text |-> text]

\* A variant without the except clause: the exception of open() or load()
\* reaches the caller.
load_metrics_raises(filepath, file) ==
    IF file.kind = "pickle"
    THEN [ret |-> Some(file.data), out |-> <<>>, raised |-> FALSE]
    ELSE [ret |-> None, out |-> <<>>, raised |-> TRUE]

\* load_metrics: the call's return value, the lines it prints and whether an
\* exception leaves it.
load_metrics(filepath, file) ==
    IF file.kind = "pickle"
    THEN [ret |-> Some(file.data), out |-> <<>>, raised |-> FALSE]
    ELSE [ret |-> None,
          out |-> <<Line("Error on", filepath.dir, filepath.file,
                         FailureText(file.kind))>>,
          raised |-> FALSE]

Has(data, m) == \E p \in data : p[1] = m

Get(data, m) == (CHOOSE p \in data : p[1] = m)[2]

MetricSet == Range(stat_metrics)

\* {metric: [] for metric in stat_metrics}
EmptyStat == [m \in MetricSet |-> <<>>]

\* for m in stat_metrics: acc[m].append(metrics[m])
\* metrics[m] raises KeyError when the record lacks m; the values of the
\* metrics that come before m in stat_metrics are appended by then.
RECURSIVE AppendEach(_, _, _)
AppendEach(acc, data, ms) ==
    IF ms = <<>> THEN [exc |-> "none", acc |-> acc]
    ELSE IF ~Has(data, Head(ms)) THEN [exc |-> "KeyError: metric", acc |-> acc]
    ELSE AppendEach([acc EXCEPT ![Head(ms)] = Append(@, Get(data, Head(ms)))],
                    data, Tail(ms))

AppendRecord(acc, data) == AppendEach(acc, data, stat_metrics)

\* A variant that forgets to divide the sum by the count.
AppendSums(out, acc) == [m \in MetricSet |-> Append(out[m], Sum(acc[m]))]

\* for m in stat_metrics: out[m].append(mean(acc[m]))
AppendMeans(out, acc) == [m \in MetricSet |-> Append(out[m], mean(acc[m]))]

Wrong(at) == Line("Something was wrong when computing", at, "", "")

\* visualize_results: the header and one line per printed statistic (the
\* rounded numbers on the line are left out).  keys are the session keys of
\* a nested out_stat.
visualize_flat(paradigm) ==
    <<Line("----", <<paradigm>>, "", "")>> \o
    [j \in 1..Len(stat_metrics) |-> Line("stat", <<paradigm>>, "", stat_metrics[j])]

visualize_nested(paradigm, keys) ==
    <<Line("----", <<paradigm>>, "", "")>> \o
    [j \in 1..(Len(keys) * Len(stat_metrics)) |->
        Line("stat", <<paradigm, keys[((j - 1) \div Len(stat_metrics)) + 1]>>, "",
             stat_metrics[((j - 1) % Len(stat_metrics)) + 1])]

\* A parser's progress: the exception raised so far ("none" while running),
\* its out_stat and what it printed.
ParserState(exc, out, log) == [exc |-> exc, out_stat |-> out, stdout |-> log]


\* ------------------------------------------------------ nested out_stat
\* A nested out_stat is a dict in insertion order: a sequence of
\* <<session name, per-metric lists>>.
Keys(out) == [j \in 1..Len(out) |-> out[j][1]]

HasKey(out, k) == \E j \in 1..Len(out) : out[j][1] = k

At(out, k) == out[CHOOSE j \in 1..Len(out) : out[j][1] = k][2]

Put(out, k, v) == [j \in 1..Len(out) |-> IF out[j][1] = k THEN <<k, v>> ELSE out[j]]

\* {key.name: {metric: [] ...} for key in sorted(folds[0].iterdir())}
NewNested(names) == [j \in 1..Len(names) |-> <<names[j], EmptyStat>>]

\* --------------------------------------------------- parse_one_sub_out
RECURSIVE SubOutFolds(_, _, _, _)
SubOutFolds(paradigm, dir, folds, st) ==
    IF folds = <<>> \/ st.exc # "none" THEN st
    ELSE LET f == Head(folds)
             ld == load_metrics(FilePath(<<paradigm, f>>), dir[f])
             ap == AppendRecord(st.out_stat, ld.ret.data)
             st1 == IF ld.ret.none
                    THEN ParserState("none", st.out_stat,
                                     st.stdout \o ld.out \o <<Wrong(<<paradigm, f>>)>>)
                    ELSE ParserState(ap.exc, ap.acc, st.stdout \o ld.out)
         IN  SubOutFolds(paradigm, dir, Tail(folds), st1)

Visualized(st, lines) ==
    IF st.exc = "none" THEN [st EXCEPT !.stdout = @ \o lines] ELSE st

parse_one_sub_out(paradigm, dir) ==
    LET st == SubOutFolds(paradigm, dir, sorted(dir), ParserState("none", EmptyStat, <<>>))
    IN  Visualized(st, visualize_flat(paradigm))

\* -------------------------------------------------- parse_cross_section
\* The inner loop over the sessions of fold f, filling sess_metrics
\* (st.out_stat here).
RECURSIVE CrossSessions(_, _, _, _, _)
CrossSessions(paradigm, f, fold, child, st) ==
    IF child = <<>> \/ st.exc # "none" THEN st
    ELSE LET sess == Head(child)
             ld == load_metrics(FilePath(<<paradigm, f, sess>>), fold[sess])
             ap == AppendRecord(st.out_stat, ld.ret.data)
             st1 == IF ld.ret.none
                    THEN ParserState("none", st.out_stat,
                                     st.stdout \o ld.out \o <<Wrong(<<paradigm, f>>)>>)
                    ELSE ParserState(ap.exc, ap.acc, st.stdout \o ld.out)
         IN  CrossSessions(paradigm, f, fold, Tail(child), st1)

RECURSIVE CrossFolds(_, _, _, _)
CrossFolds(paradigm, dir, folds, st) ==
    IF folds = <<>> \/ st.exc # "none" THEN st
    ELSE LET f == Head(folds)
             inner == CrossSessions(paradigm, f, dir[f], sorted(dir[f]),
                                 ParserState("none", EmptyStat, st.stdout))
             st1 == IF inner.exc # "none"
                    THEN ParserState(inner.exc, st.out_stat, inner.stdout)
                    ELSE ParserState("none", AppendMeans(st.out_stat, inner.out_stat),
                                     inner.stdout)
         IN  CrossFolds(paradigm, dir, Tail(folds), st1)

parse_cross_section(paradigm, dir) ==
    LET st == CrossFolds(paradigm, dir, sorted(dir), ParserState("none", EmptyStat, <<>>))
    IN  Visualized(st, visualize_flat(paradigm))


\* ------------------------------------------------ parse_one_session_out
\* out_stat[sess.name][m].append(metrics[m]) for every m: the lookup of the
\* session key is evaluated first and raises KeyError for a session that the
\* first fold lacks.
AppendUnderKey(out, k, data) ==
    IF ~HasKey(out, k) THEN [exc |-> "KeyError: session", acc |-> out]
    ELSE LET ap == AppendRecord(At(out, k), data)
         IN  [exc |-> ap.exc, acc |-> Put(out, k, ap.acc)]

RECURSIVE SessionOutSessions(_, _, _, _, _)
SessionOutSessions(paradigm, f, fold, child, st) ==
    IF child = <<>> \/ st.exc # "none" THEN st
    ELSE LET sess == Head(child)
             ld == load_metrics(FilePath(<<paradigm, f, sess>>), fold[sess])
             ap == AppendUnderKey(st.out_stat, sess, ld.ret.data)
             st1 == IF ld.ret.none
                    THEN ParserState("none", st.out_stat,
                                     st.stdout \o ld.out \o <<Wrong(<<paradigm>>)>>)
                    ELSE ParserState(ap.exc, ap.acc, st.stdout \o ld.out)
         IN  SessionOutSessions(paradigm, f, fold, Tail(child), st1)

RECURSIVE SessionOutFolds(_, _, _, _)
SessionOutFolds(paradigm, dir, folds, st) ==
    IF folds = <<>> \/ st.exc # "none" THEN st
    ELSE LET f == Head(folds)
         IN  SessionOutFolds(paradigm, dir, Tail(folds),
                 SessionOutSessions(paradigm, f, dir[f], sorted(dir[f]), st))

parse_one_session_out(paradigm, dir) ==
    LET folds == sorted(dir)
    IN  IF folds = <<>>
        THEN ParserState("IndexError", <<>>, <<>>)    \* folds[0]
        ELSE LET out0 == NewNested(sorted(dir[folds[1]]))
                 st == SessionOutFolds(paradigm, dir, folds,
                                       ParserState("none", out0, <<>>))
             IN  Visualized(st, visualize_nested(paradigm, Keys(st.out_stat)))

\* ------------------------------------------------- parse_within_session
\* A session directory of within-session is listed with a bare iterdir():
\* it is a sequence of [name, file] entries in the order the file system
\* enumerates them.
\* The loop over the subjects of one session, filling sub_perf.
RECURSIVE WithinSubjects(_, _, _, _, _)
WithinSubjects(paradigm, f, sess, subs, st) ==
    IF subs = <<>> \/ st.exc # "none" THEN st
    ELSE LET sub == Head(subs)
             ld == load_metrics(FilePath(<<paradigm, f, sess, sub.name>>), sub.file)
             ap == AppendRecord(st.out_stat, ld.ret.data)
             st1 == IF ld.ret.none
                    THEN ParserState("none", st.out_stat,
                                     st.stdout \o ld.out \o <<Wrong(<<paradigm, f>>)>>)
                    ELSE ParserState(ap.exc, ap.acc, st.stdout \o ld.out)
         IN  WithinSubjects(paradigm, f, sess, Tail(subs), st1)

\* A variant that keeps the subjects' raw values
\* (out_stat[sess.name][k].extend(sub_perf[k])).
ExtendRawUnderKey(out, k, sub_perf) ==
    IF ~HasKey(out, k) THEN [exc |-> "KeyError: session", acc |-> out]
    ELSE [exc |-> "none",
          acc |-> Put(out, k, [m \in MetricSet |-> At(out, k)[m] \o sub_perf[m]])]

\* for k in sub_perf.keys(): out_stat[sess.name][k].append(mean(sub_perf[k]))
AppendMeansUnderKey(out, k, sub_perf) ==
    IF ~HasKey(out, k) THEN [exc |-> "KeyError: session", acc |-> out]
    ELSE [exc |-> "none", acc |-> Put(out, k, AppendMeans(At(out, k), sub_perf))]

RECURSIVE WithinSessions(_, _, _, _, _)
WithinSessions(paradigm, f, fold, child, st) ==
    IF child = <<>> \/ st.exc # "none" THEN st
    ELSE LET sess == Head(child)
             inner == WithinSubjects(paradigm, f, sess, fold[sess],
                                     ParserState("none", EmptyStat, st.stdout))
             ap == AppendMeansUnderKey(st.out_stat, sess, inner.out_stat)
             st1 == IF inner.exc # "none"
                    THEN ParserState(inner.exc, st.out_stat, inner.stdout)
                    ELSE ParserState(ap.exc, ap.acc, inner.stdout)
         IN  WithinSessions(paradigm, f, fold, Tail(child), st1)

RECURSIVE WithinFolds(_, _, _, _)
WithinFolds(paradigm, dir, folds, st) ==
    IF folds = <<>> \/ st.exc # "none" THEN st
    ELSE LET f == Head(folds)
         IN  WithinFolds(paradigm, dir, Tail(folds),
                 WithinSessions(paradigm, f, dir[f], sorted(dir[f]), st))

parse_within_session(paradigm, dir) ==
    LET folds == sorted(dir)
    IN  IF folds = <<>>
        THEN ParserState("IndexError", <<>>, <<>>)    \* folds[0]
        ELSE LET out0 == NewNested(sorted(dir[folds[1]]))
                 st == WithinFolds(paradigm, dir, folds,
                                   ParserState("none", out0, <<>>))
             IN  Visualized(st, visualize_nested(paradigm, Keys(st.out_stat)))

\* ----------------------------------------------------------- aggregators
RECURSIVE Flattened(_, _)
Flattened(res, m) ==
    IF res = <<>> THEN <<>> ELSE res[1][2][m] \o Flattened(Tail(res), m)

\* A variant that pools the collected values instead of averaging them per
\* session (temp[k].extend(r)).
aggregate_nested_extend(results) == [m \in MetricSet |-> Flattened(results, m)]

\* aggregate_nested: for _, v in results.items(): for k, r in v.items():
\*     temp[k].append(mean(r))
aggregate_nested(results) ==
    [m \in MetricSet |-> [j \in 1..Len(results) |-> mean(results[j][2][m])]]

\* A variant that hands the per-fold sequence on unreduced.
aggregate_single_identity(results) == [m \in MetricSet |-> results[m]]

\* aggregate_single: for k, r in results.items(): temp[k].append(mean(r))
aggregate_single(results) ==
    [m \in MetricSet |-> <<mean(results[m])>>]


\* -------------------------------------------------------- study aggregator
KnownParadigms ==
    {"cross-session", "leave-one-session-out", "leave-one-subject-out", "within-session"}

\* The entry names a results root is drawn from, in the order Python's
\* sorted() puts the paths (string comparison of the names).
NameOrder ==
    <<"cross-session", "cross-session.bak", "leave-one-channel-out",
      "leave-one-session-out", "leave-one-subject-out", "within-session",
      "within-session.bak">>

EntryNames == Range(NameOrder)

\* sorted(results_folder.iterdir()), as the sequence of entry names.
InNames(S, n) == n \in S

sorted_paradigms(S) == SelectSeq(NameOrder, LAMBDA n : InNames(S, n))

\* Path.stem: the name without its last suffix.
stem(name) ==
    CASE name = "cross-session.bak" -> "cross-session"
      [] name = "within-session.bak" -> "within-session"
      [] OTHER -> name

available_parsers ==
    [k \in KnownParadigms |->
        CASE k = "leave-one-session-out" -> "parse_one_session_out"
          [] k = "cross-session" -> "parse_cross_section"
          [] k = "leave-one-subject-out" -> "parse_one_sub_out"
          [] OTHER -> "parse_within_session"]

available_aggrs ==
    [k \in KnownParadigms |->
        CASE k = "leave-one-session-out" -> "aggregate_nested"
          [] k = "within-session" -> "aggregate_nested"
          [] OTHER -> "aggregate_single"]

VARIABLES
    \* aggregate_metrics
    root,          \* the results tree: entry name -> directory
    pc,            \* "start", "parse", "aggregate", "extend", "done", "raised"
    todo,          \* the paradigms the loop of aggregate_metrics has yet to visit
    paradigm,      \* the loop variable (a name), "" outside the loop
    results,       \* the parser's return value for the current paradigm
    temp,          \* the aggregator's return value for the current paradigm
    overall_stat,  \* metric -> pooled list
    returned,      \* the returned dict: metric -> [mean, std]; <<>> before
    exc,           \* the exception that ended the run, "none" otherwise
    stdout,        \* the lines printed so far
    aggregated,    \* history: <<paradigm, temp>> of every paradigm aggregated
    call,          \* a single load_metrics call: [filepath, file on disk]
    ret,           \* what that call returned
    \* run_on_main, one call per process of a group
    env,           \* process -> its LOCAL_RANK
    opts,          \* the arguments of the call and the state of the group
    at,            \* process -> where it is in run_on_main
    barriers,      \* process -> number of ddp_barrier calls it has made
    ran,           \* process -> what became of func and post_func there
    \* MOABBBrain during fit
    hparams,          \* test_with, test_key, number_of_epochs, avg_models
    epoch,            \* the current epoch, 0 before the first
    stage,            \* the stage that ends next: "TRAIN", "VALID"; "END" when fit
                      \* has ended; "TEST" or "RAISED" after on_evaluate_start
    train_loss,       \* self.train_loss
    heap,             \* the stats dicts allocated so far: id -> dict
    last_eval_stats,  \* self.last_eval_stats, a reference into heap (0: unset)
    best_eval_stats,  \* self.best_eval_stats, a reference into heap (0: unset)
    saved,            \* history: the epochs at which a checkpoint was saved
    valid_log,        \* history: the value of test_key at every VALID stage end
    ckpts             \* the checkpoints on_evaluate_start found (their epochs)

aggVars == <<root, pc, todo, paradigm, results, temp, overall_stat, returned, exc,
             stdout, aggregated, call, ret>>

ddpVars == <<env, opts, at, barriers, ran>>

brainVars == <<hparams, epoch, stage, train_loss, heap, last_eval_stats,
               best_eval_stats, saved, valid_log, ckpts>>

vars == <<aggVars, ddpVars, brainVars>>

\* available_paradigms of line 273 and the keys of the dicts parsers and aggr.
available_paradigms == {stem(n) : n \in DOMAIN root}

\* Lines 270-277: the dispatch dicts are built from the stems; a stem that
\* is no key of available_parsers raises KeyError.
Start ==
    /\ pc = "start"
    /\ IF available_paradigms \subseteq DOMAIN available_parsers
       THEN /\ pc' = "parse"
            /\ todo' = sorted_paradigms(DOMAIN root)
            /\ exc' = "none"
       ELSE /\ pc' = "raised"
            /\ todo' = <<>>
            /\ exc' = "KeyError: paradigm"
    /\ overall_stat' = EmptyStat
    /\ UNCHANGED <<root, paradigm, results, temp, returned, stdout, aggregated, call, ret>>
    /\ UNCHANGED <<ddpVars, brainVars>>

\* The outcome of a parser call (lines 280-284).
AfterParse(name, st) ==
    /\ paradigm' = name
    /\ todo' = Tail(todo)
    /\ stdout' = stdout \o st.stdout
    /\ IF st.exc = "none"
       THEN /\ pc' = "aggregate"
            /\ results' = st.out_stat
            /\ exc' = "none"
       ELSE /\ pc' = "raised"
            /\ results' = <<>>
            /\ exc' = st.exc
    /\ UNCHANGED <<root, temp, overall_stat, returned, aggregated, call, ret>>
    /\ UNCHANGED <<ddpVars, brainVars>>

Dispatch(name, parser) ==
    /\ pc = "parse"
    /\ todo # <<>>
    /\ Head(todo) = name
    /\ name \in available_paradigms
    /\ available_parsers[name] = parser

ParseOneSessionOut ==
    \E name \in DOMAIN root :
        /\ Dispatch(name, "parse_one_session_out")
        /\ AfterParse(name, parse_one_session_out(name, root[name]))

ParseCrossSection ==
    \E name \in DOMAIN root :
        /\ Dispatch(name, "parse_cross_section")
        /\ AfterParse(name, parse_cross_section(name, root[name]))

ParseOneSubOut ==
    \E name \in DOMAIN root :
        /\ Dispatch(name, "parse_one_sub_out")
        /\ AfterParse(name, parse_one_sub_out(name, root[name]))

ParseWithinSession ==
    \E name \in DOMAIN root :
        /\ Dispatch(name, "parse_within_session")
        /\ AfterParse(name, parse_within_session(name, root[name]))

\* Line 280: parsers[paradigm.name] for a name that is no key of parsers.
ParserLookupFails ==
    /\ pc = "parse"
    /\ todo # <<>>
    /\ Head(todo) \notin available_paradigms
    /\ paradigm' = Head(todo)
    /\ todo' = Tail(todo)
    /\ pc' = "raised"
    /\ exc' = "KeyError: paradigm"
    /\ UNCHANGED <<root, results, temp, overall_stat, returned, stdout, aggregated, call, ret>>
    /\ UNCHANGED <<ddpVars, brainVars>>

\* Lines 285-287.
Aggregated(value) ==
    /\ temp' = value
    /\ aggregated' = Append(aggregated, <<paradigm, value>>)
    /\ pc' = "extend"
    /\ UNCHANGED <<root, todo, paradigm, results, overall_stat, returned, exc, stdout, call, ret>>
    /\ UNCHANGED <<ddpVars, brainVars>>

AggregateNested ==
    /\ pc = "aggregate"
    /\ available_aggrs[paradigm] = "aggregate_nested"
    /\ Aggregated(aggregate_nested(results))

AggregateSingle ==
    /\ pc = "aggregate"
    /\ available_aggrs[paradigm] = "aggregate_single"
    /\ Aggregated(aggregate_single(results))

\* Lines 289-290: for k in temp.keys(): overall_stat[k].extend(temp[k])
ExtendWith(pooled, t) == [m \in MetricSet |-> pooled[m] \o t[m]]

Extend ==
    /\ pc = "extend"
    /\ overall_stat' = ExtendWith(overall_stat, temp)
    /\ pc' = "parse"
    /\ UNCHANGED <<root, todo, paradigm, results, temp, returned, exc, stdout, aggregated, call, ret>>
    /\ UNCHANGED <<ddpVars, brainVars>>

\* A variant that calls std with ddof = 1.
StatisticsSample(pooled) ==
    [m \in MetricSet |-> [mean |-> mean(pooled[m]), std |-> SampleStd(pooled[m])]]

\* Lines 292-296.
Statistics(pooled) == [m \in MetricSet |-> [mean |-> mean(pooled[m]), std |-> std(pooled[m])]]

Finish ==
    /\ pc = "parse"
    /\ todo = <<>>
    /\ returned' = Statistics(overall_stat)
    /\ pc' = "done"
    /\ UNCHANGED <<root, todo, paradigm, results, temp, overall_stat, exc, stdout, aggregated, call, ret>>
    /\ UNCHANGED <<ddpVars, brainVars>>

Next ==
    \/ Start
    \/ ParseOneSessionOut
    \/ ParseCrossSection
    \/ ParseOneSubOut
    \/ ParseWithinSession
    \/ ParserLookupFails
    \/ AggregateNested
    \/ AggregateSingle
    \/ Extend
    \/ Finish


\* ------------------------------------------------------- results trees
\* The metric files the trees are built from.
RA == File("pickle", {<<"acc", Num(1, 1)>>, <<"loss", Num(2, 1)>>})

RB == File("pickle", {<<"acc", Num(2, 1)>>, <<"loss", Num(1, 1)>>})

\* A record that lacks the metric loss.
RP == File("pickle", {<<"acc", Num(1, 1)>>})

Unreadable == {File(k, {}) : k \in {"missing", "corrupt"}}

FullRecords == {RA, RB}

LeafFiles == Unreadable \cup FullRecords \cup {RP}

SessNames == 1..MaxSess

NoEntries == [x \in {} |-> x]

\* A session directory of within-session holding n subject directories,
\* in every enumeration order.
SubjectDirs(files, n) ==
    {[j \in 1..n |-> [name |-> p[j], file |-> fl[j]]] :
        p \in Perms(1..n), fl \in [1..n -> files]}

\* The contents of a fold directory that has k directories below it and
\* uses the session names 1..s: sessions holding a file each
\* (cross-session, leave-one-session-out) or sessions holding subject
\* directories (within-session).
RECURSIVE SessionFolds(_, _, _, _)
SessionFolds(kind, files, s, k) ==
    IF s = 0 THEN (IF k = 0 THEN {NoEntries} ELSE {})
    ELSE SessionFolds(kind, files, s - 1, k) \cup
         UNION {{(s :> c) @@ d :
                    d \in SessionFolds(kind, files, s - 1, k - a),
                    c \in IF kind = "subjects" THEN SubjectDirs(files, a - 1) ELSE files} :
                a \in (IF kind = "subjects" THEN 1..k ELSE {1} \cap 1..k)}

\* The fold directories that make up k directories, the fold included: a
\* fold holding the file itself (leave-one-subject-out) or sessions.
FoldDirs(kind, files, k) ==
    IF kind = "file" THEN (IF k = 1 THEN files ELSE {})
    ELSE SessionFolds(kind, files, MaxSess, k - 1)

\* The paradigm directories that hold k directories in all.
RECURSIVE ParadigmDirsOf(_, _, _)
ParadigmDirsOf(kind, files, k) ==
    IF k = 0 THEN {<<>>}
    ELSE UNION {{Append(d, c) :
                    d \in ParadigmDirsOf(kind, files, k - a),
                    c \in FoldDirs(kind, files, a)} :
                a \in 1..k}

KindOf(name) ==
    CASE name = "leave-one-subject-out" -> "file"
      [] name \in {"cross-session", "leave-one-session-out"} -> "sessions"
      [] name = "within-session" -> "subjects"
      [] OTHER -> "unread"

\* The directories an entry of the root may be: an entry that is no known
\* paradigm is never listed, and is an empty directory here.
ParadigmDirs(name, files, k) ==
    IF KindOf(name) = "unread" THEN (IF k = 0 THEN {<<>>} ELSE {})
    ELSE ParadigmDirsOf(KindOf(name), files, k)

\* The directories of every entry name, by the number of directories they
\* hold.
EntryDirs ==
    [name \in EntryNames, k \in 0..MaxNodes |-> ParadigmDirs(name, LeafFiles, k)]

\* The results roots with the entries names that hold k directories below
\* their entries.
RECURSIVE RootsOver(_, _)
RootsOver(names, k) ==
    IF names = <<>> THEN (IF k = 0 THEN {NoEntries} ELSE {})
    ELSE UNION {{(Head(names) :> d) @@ r :
                    d \in EntryDirs[Head(names), a],
                    r \in RootsOver(Tail(names), k - a)} :
                a \in 0..k}

\* The sets of entry names of a root of at most MaxEntries entries.
EntrySets == {X \in SUBSET EntryNames : Cardinality(X) <= MaxEntries}

\* ---------------------------------------------------------- specifications
\* The values of the variables of run_on_main and of MOABBBrain where
\* neither takes part.
IdleDDP ==
    /\ env = <<>>
    /\ opts = <<>>
    /\ at = <<>>
    /\ barriers = <<>>
    /\ ran = <<>>

IdleBrain ==
    /\ hparams = <<>>
    /\ epoch = 0
    /\ stage = "END"
    /\ train_loss = 0
    /\ heap = <<>>
    /\ last_eval_stats = 0
    /\ best_eval_stats = 0
    /\ saved = {}
    /\ valid_log = <<>>
    /\ ckpts = {}

InitWith(r) ==
    /\ IdleDDP
    /\ IdleBrain
    /\ root = r
    /\ pc = "start"
    /\ todo = <<>>
    /\ paradigm = ""
    /\ results = <<>>
    /\ temp = <<>>
    /\ overall_stat = <<>>
    /\ returned = <<>>
    /\ exc = "none"
    /\ stdout = <<>>
    /\ aggregated = <<>>
    /\ call = <<>>
    /\ ret = <<>>

Init ==
    \E E \in EntrySets, k \in 0..MaxNodes :
        \E r \in RootsOver(sorted_paradigms(E), k) : InitWith(r)

Spec == Init /\ [][Next]_vars


\* ------------------------------------------- load_metrics on its own
\* The locations of the metric files of the bounded trees.
Locations ==
    {FilePath(<<"leave-one-subject-out", f>>) : f \in 1..MaxNodes} \cup
    {FilePath(<<p, f, s>>) :
        p \in {"cross-session", "leave-one-session-out"}, f \in 1..MaxNodes, s \in SessNames} \cup
    {FilePath(<<"within-session", f, s, u>>) :
        f \in 1..MaxNodes, s \in SessNames, u \in 1..MaxNodes}

\* What a location may hold: nothing, something unreadable or undecodable,
\* or a pickled mapping (the empty one, a partial one, full ones).
DiskFiles ==
    {File(k, {}) : k \in FailureKinds} \cup {File("pickle", {}), RP, RA, RB}

InitLoad ==
    /\ IdleDDP
    /\ IdleBrain
    /\ call \in [filepath : Locations, file : DiskFiles]
    /\ pc = "load"
    /\ root = <<>>
    /\ todo = <<>>
    /\ paradigm = ""
    /\ results = <<>>
    /\ temp = <<>>
    /\ overall_stat = <<>>
    /\ returned = <<>>
    /\ exc = "none"
    /\ stdout = <<>>
    /\ aggregated = <<>>
    /\ ret = <<>>

\* One call load_metrics(filepath), lines 22-38.
LoadMetrics ==
    /\ pc = "load"
    /\ LET r == load_metrics(call.filepath, call.file)
       IN  /\ ret' = r.ret
           /\ stdout' = stdout \o r.out
           /\ exc' = IF r.raised THEN "Exception" ELSE "none"
           /\ pc' = IF r.raised THEN "raised" ELSE "loaded"
    /\ UNCHANGED <<root, todo, paradigm, results, temp, overall_stat, returned,
                   aggregated, call>>
    /\ UNCHANGED <<ddpVars, brainVars>>

NextLoad == LoadMetrics

SpecLoad == InitLoad /\ [][NextLoad]_vars

\* C1: load_metrics never raises.  When the file is missing, unreadable or
\* not deserializable it prints exactly one line, which carries the location
\* and the failure text, and returns None; when the file deserializes it
\* returns the stored mapping unchanged and prints nothing.
C1_LoadNeverRaises ==
    /\ pc # "raised"
    /\ pc = "loaded" =>
          IF call.file.kind \in FailureKinds
          THEN /\ ret = None
               /\ Len(stdout) = 1
               /\ stdout[1].tag = "Error on"
               /\ stdout[1].at = call.filepath.dir
               /\ stdout[1].file = call.filepath.file
               /\ stdout[1].text = FailureText(call.file.kind)
          ELSE /\ ret = Some(call.file.data)
               /\ stdout = <<>>

C1_Witness ==
    /\ pc = "loaded"
    /\ call.file.kind = "corrupt"
    /\ call.filepath.dir = <<"within-session", 2, 1, 2>>
    /\ ret = None
    /\ Len(stdout) = 1


\* ------------------------------------------- one paradigm, start to end
\* parsers[name](...) and aggr[name](...) of lines 280-287 as one function
\* of a paradigm directory: the exception raised, or the AggregatedStats.
RunParser(name, dir) ==
    CASE available_parsers[name] = "parse_one_session_out" -> parse_one_session_out(name, dir)
      [] available_parsers[name] = "parse_cross_section" -> parse_cross_section(name, dir)
      [] available_parsers[name] = "parse_one_sub_out" -> parse_one_sub_out(name, dir)
      [] OTHER -> parse_within_session(name, dir)

RunAggregator(name, res) ==
    IF available_aggrs[name] = "aggregate_nested"
    THEN aggregate_nested(res) ELSE aggregate_single(res)

RunParadigm(name, dir) ==
    LET st == RunParser(name, dir)
    IN  IF st.exc # "none" THEN [exc |-> st.exc, temp |-> <<>>]
        ELSE [exc |-> "none", temp |-> RunAggregator(name, st.out_stat)]

\* The metric files of one fold directory, as a set.
FoldFiles(name, fold) ==
    CASE KindOf(name) = "file" -> {fold}
      [] KindOf(name) = "sessions" -> {fold[x] : x \in DOMAIN fold}
      [] OTHER -> UNION {{fold[x][j].file : j \in DOMAIN fold[x]} : x \in DOMAIN fold}

\* Every metric file of the fold is unreadable (and it has one).
FoldUnreadable(name, fold) ==
    /\ FoldFiles(name, fold) # {}
    /\ \A fl \in FoldFiles(name, fold) : fl.kind # "pickle"

\* Every metric file of the fold holds a record with all requested metrics.
FoldSound(name, fold) ==
    /\ FoldFiles(name, fold) # {}
    /\ \A fl \in FoldFiles(name, fold) :
          fl.kind = "pickle" /\ \A m \in MetricSet : Has(fl.data, m)

WithoutFold(dir, f) == [g \in DOMAIN dir \ {f} |-> dir[g]]

HasNaN(xs) == \E j \in DOMAIN xs : IsNaN(xs[j])

\* C2: corrupt-artifact tolerance.  For a paradigm directory with at least
\* two folds (all with the same session names) of which exactly one is
\* unreadable and the others hold sound records, parser and aggregator
\* complete without raising and the AggregatedStats equal those of the same
\* directory without that fold.
SameSessions(name, dir) ==
    KindOf(name) = "file" \/ \A f, g \in DOMAIN dir : DOMAIN dir[f] = DOMAIN dir[g]

C2_Case(name, f) ==
    /\ name \in KnownParadigms
    /\ SameSessions(name, root[name])
    /\ Cardinality(DOMAIN root[name]) >= 2
    /\ f \in DOMAIN root[name]
    /\ FoldUnreadable(name, root[name][f])
    /\ \A g \in DOMAIN root[name] \ {f} : FoldSound(name, root[name][g])

C2_CorruptFoldTolerated ==
    (pc \in {"extend", "raised"} /\ paradigm \in DOMAIN root) =>
        \A f \in DOMAIN root[paradigm] :
            C2_Case(paradigm, f) =>
                /\ pc = "extend"
                /\ temp = RunParadigm(paradigm, WithoutFold(root[paradigm], f)).temp

\* C4: a paradigm directory with zero folds never gets through its parser
\* and aggregator: no AggregatedStats is returned for it.
C4_EmptyParadigmIsFatal ==
    (pc = "extend" /\ paradigm \in DOMAIN root) => DOMAIN root[paradigm] # {}

\* C5: aggregate_metrics returns statistics only when every requested
\* metric has a non-empty pooled sequence (and so only when the root holds
\* a recognized paradigm).
C5_NoStatisticsWithoutData ==
    pc = "done" =>
        /\ DOMAIN root \cap KnownParadigms # {}
        /\ \A m \in MetricSet : overall_stat[m] # <<>>

\* C3: a results root with an entry that is no known paradigm makes
\* aggregate_metrics fail with the unknown-paradigm error: it returns
\* nothing, and no other outcome ends the run.
C3_UnknownEntryFails ==
    (DOMAIN root \ KnownParadigms # {}) =>
        /\ pc # "done"
        /\ returned = <<>>
        /\ pc = "raised" => exc = "KeyError: paradigm"


\* x is the arithmetic mean of xs: x * len(xs) = sum(xs), stated without
\* the division; numpy's answer for an empty or nan-holding list is nan.
IsMeanOf(x, xs) ==
    IF xs = <<>> \/ HasNaN(xs) THEN IsNaN(x)
    ELSE /\ ~IsNaN(x)
         /\ x[1] * Sum(xs)[2] * Len(xs) = Sum(xs)[1] * x[2]

\* v is the population variance of xs: v * len(xs) = sum |x - mean|^2.
IsPopVarianceOf(v, xs) ==
    IF xs = <<>> \/ HasNaN(xs) THEN IsNaN(v)
    ELSE LET q == Sum([j \in 1..Len(xs) |-> SqDiff(xs[j], mean(xs))])
         IN  /\ ~IsNaN(v)
             /\ v[1] * q[2] * Len(xs) = q[1] * v[2]

\* C8: the nested aggregator's result has, for every metric, exactly one
\* entry per session key, in key order, the entry of a session being the
\* mean of that session's collected sequence; the session keys are the
\* sessions of the first fold, however many folds there are.
C8_NestedOnePerSession ==
    (pc = "extend" /\ available_aggrs[paradigm] = "aggregate_nested") =>
        \A m \in MetricSet :
            /\ Len(temp[m]) = Len(results)
            /\ Len(temp[m]) = Cardinality(DOMAIN root[paradigm][1])
            /\ \A j \in 1..Len(results) : IsMeanOf(temp[m][j], results[j][2][m])

C8_Witness ==
    /\ pc = "extend"
    /\ paradigm = "leave-one-session-out"
    /\ Len(root[paradigm]) = 2
    /\ temp = [acc |-> <<Num(3, 2)>>, loss |-> <<Num(3, 2)>>]

\* C9: the flat aggregator's result has, for every metric, exactly one
\* entry, the mean of the paradigm's flat sequence, whatever the number of
\* folds.
C9_FlatOnePerParadigm ==
    (pc = "extend" /\ available_aggrs[paradigm] = "aggregate_single"
        /\ Len(root[paradigm]) >= 1) =>
        \A m \in MetricSet :
            /\ Len(temp[m]) = 1
            /\ IsMeanOf(temp[m][1], results[m])

C9_Witness ==
    /\ pc = "extend"
    /\ paradigm = "leave-one-subject-out"
    /\ Len(root[paradigm]) = 2
    /\ results["acc"] = <<Num(1, 1), Num(2, 1)>>
    /\ temp["acc"] = <<Num(3, 2)>>


\* Position of an entry name in sorted order.
Rank(name) == CHOOSE j \in 1..Len(NameOrder) : NameOrder[j] = name

RECURSIVE Pooled(_, _)
Pooled(hist, m) ==
    IF hist = <<>> THEN <<>> ELSE hist[1][2][m] \o Pooled(Tail(hist), m)

\* C7: when aggregate_metrics returns, every paradigm of the root has been
\* aggregated once, in lexicographic order of its name; the pooled sequence
\* of a metric is the concatenation, in that order, of the paradigms'
\* AggregatedStats; the returned mean is the arithmetic mean of the pooled
\* sequence and the returned std the square root of its population
\* variance (divisor: the length of the pooled sequence).
C7_PooledMeanAndStd ==
    pc = "done" =>
        /\ {aggregated[j][1] : j \in 1..Len(aggregated)} = DOMAIN root
        /\ \A j, k \in 1..Len(aggregated) :
              j < k => Rank(aggregated[j][1]) < Rank(aggregated[k][1])
        /\ \A j \in 1..Len(aggregated) :
              aggregated[j][2] =
                  RunParadigm(aggregated[j][1], root[aggregated[j][1]]).temp
        /\ \A m \in MetricSet :
              /\ overall_stat[m] = Pooled(aggregated, m)
              /\ IsMeanOf(returned[m].mean, overall_stat[m])
              /\ IsPopVarianceOf(returned[m].std.sqrt, overall_stat[m])

\* Two paradigms pooled: two points from the nested paradigm, then one from
\* the flat one, with a non-zero spread.
C7_Witness ==
    /\ pc = "done"
    /\ Len(aggregated) = 2
    /\ aggregated[1][1] = "leave-one-session-out"
    /\ aggregated[2][1] = "leave-one-subject-out"
    /\ Len(aggregated[1][2]["acc"]) = 2
    /\ overall_stat["acc"] = <<Num(1, 1), Num(2, 1), Num(1, 1)>>
    /\ returned["acc"] = [mean |-> Num(4, 3), std |-> Sqrt(Num(2, 9))]

\* The values of metric m in the records that load from a session
\* directory of within-session, in enumeration order.
RECURSIVE LoadedValues(_, _)
LoadedValues(subs, m) ==
    IF subs = <<>> THEN <<>>
    ELSE (IF subs[1].file.kind = "pickle" /\ Has(subs[1].file.data, m)
          THEN <<Get(subs[1].file.data, m)>> ELSE <<>>)
         \o LoadedValues(Tail(subs), m)

\* The folds of dir that hold a session directory s, in sorted order.
FoldsWith(dir, s) == SelectSeq(sorted(dir), LAMBDA f : s \in DOMAIN dir[f])

RECURSIVE RawValues(_, _, _, _)
RawValues(dir, folds, s, m) ==
    IF folds = <<>> THEN <<>>
    ELSE LoadedValues(dir[folds[1]][s], m) \o RawValues(dir, Tail(folds), s, m)

\* C10 as stated: the within-session parser does not average; under every
\* session key it returns the raw value of every loaded subject record.
C10_WithinKeepsRawValues ==
    (pc = "aggregate" /\ paradigm = "within-session") =>
        \A j \in 1..Len(results) : \A m \in MetricSet :
            results[j][2][m] =
                RawValues(root[paradigm], FoldsWith(root[paradigm], results[j][1]),
                          results[j][1], m)

\* C10, amended: the within-session parser averages over the subjects inside
\* each (fold, session).  When it returns, its keys are the sessions of the
\* first fold, and under session s every metric has one entry per fold that
\* holds a directory s, in fold order: the mean of the metric over the
\* subject records of that fold and session that loaded (nan when none
\* did).
C10_WithinAveragesPerFold ==
    (pc = "aggregate" /\ paradigm = "within-session") =>
        /\ Keys(results) = sorted(root[paradigm][1])
        /\ \A j \in 1..Len(results) : \A m \in MetricSet :
              LET s == results[j][1]
                  fs == FoldsWith(root[paradigm], s)
              IN  /\ Len(results[j][2][m]) = Len(fs)
                  /\ \A k \in 1..Len(fs) :
                        IsMeanOf(results[j][2][m][k],
                                 LoadedValues(root[paradigm][fs[k]][s], m))

\* One session holding two subject records that load: one entry, their mean.
C10_Witness ==
    /\ pc = "aggregate"
    /\ paradigm = "within-session"
    /\ Len(results) = 1
    /\ Len(root[paradigm][1][results[1][1]]) = 2
    /\ results[1][2]["acc"] = <<Num(3, 2)>>


\* ------------------------------------- the end-to-end within-session scenario
\* The record of a subject whose acc is n tenths.
AccRecord(n) == File("pickle", {<<"acc", Num(n, 10)>>, <<"loss", Num(1, 2)>>})

\* A session directory with three subjects of acc 0.7, 0.8 and 0.9, in every
\* enumeration order.
ScenarioSessions ==
    {[j \in 1..3 |-> [name |-> p[j], file |-> AccRecord(6 + p[j])]] : p \in Perms(1..3)}

\* 2 folds x 2 sessions x 3 subjects under within-session, and nothing else.
ScenarioRoots ==
    {("within-session" :> <<(1 :> a) @@ (2 :> b), (1 :> c) @@ (2 :> d)>>) :
        a \in ScenarioSessions, b \in ScenarioSessions,
        c \in ScenarioSessions, d \in ScenarioSessions}

InitScenario == \E r \in ScenarioRoots : InitWith(r)

NextScenario ==
    \/ Start
    \/ ParseWithinSession
    \/ AggregateNested
    \/ Extend
    \/ Finish

SpecScenario == InitScenario /\ [][NextScenario]_vars

\* C6 as stated: the nested aggregator yields exactly 4 session-level means
\* of acc, each 0.8, and the overall acc has mean 0.8 and std 0.0.
C6_FourSessionMeans ==
    /\ pc = "extend" =>
          /\ Len(temp["acc"]) = 4
          /\ \A j \in 1..Len(temp["acc"]) : temp["acc"][j] = Num(8, 10)
    /\ pc = "done" => returned["acc"] = [mean |-> Num(8, 10), std |-> Sqrt(Num(0, 1))]

\* C6, amended: the parser leaves one mean of 0.8 per fold under each of the
\* 2 session names, the nested aggregator yields exactly 2 session-level
\* means of acc, each 0.8, and the overall acc has mean 0.8 and std 0.0.
C6_TwoSessionMeans ==
    /\ pc = "aggregate" =>
          /\ Keys(results) = <<1, 2>>
          /\ \A j \in 1..2 : results[j][2]["acc"] = <<Num(8, 10), Num(8, 10)>>
    /\ pc = "extend" => temp["acc"] = <<Num(8, 10), Num(8, 10)>>
    /\ pc = "done" => returned["acc"] = [mean |-> Num(8, 10), std |-> Sqrt(Num(0, 1))]

C6_Witness ==
    /\ pc = "done"
    /\ aggregated[1][2]["acc"] = <<Num(8, 10), Num(8, 10)>>
    /\ returned["acc"].mean = Num(4, 5)
    /\ Len(stdout) = 5

\* ------------------------------------------- what the parsers return
\* The values of metric m in the records that load from the sessions sess of
\* a fold directory whose sessions hold a file each.
RECURSIVE FoldValues(_, _, _)
FoldValues(fold, sess, m) ==
    IF sess = <<>> THEN <<>>
    ELSE (IF fold[sess[1]].kind = "pickle" /\ Has(fold[sess[1]].data, m)
          THEN <<Get(fold[sess[1]].data, m)>> ELSE <<>>)
         \o FoldValues(fold, Tail(sess), m)

\* The values of metric m that load from session s of the folds, in fold
\* order.
RECURSIVE SessionRaw(_, _, _, _)
SessionRaw(dir, folds, s, m) ==
    IF folds = <<>> THEN <<>>
    ELSE FoldValues(dir[folds[1]], <<s>>, m) \o SessionRaw(dir, Tail(folds), s, m)

\* C11: when parse_cross_section returns, every metric has exactly one entry
\* per fold, in sorted fold order, the entry of a fold being the mean of the
\* metric over the session records of that fold that loaded; when
\* parse_one_session_out returns, every session key holds the loaded values
\* of its session unaveraged, one per fold, in fold order.
C11_CrossAveragesPerFold ==
    /\ (pc = "aggregate" /\ paradigm = "cross-session") =>
          \A m \in MetricSet :
              /\ Len(results[m]) = Len(root[paradigm])
              /\ \A f \in 1..Len(root[paradigm]) :
                    IsMeanOf(results[m][f],
                             FoldValues(root[paradigm][f], sorted(root[paradigm][f]), m))
    /\ (pc = "aggregate" /\ paradigm = "leave-one-session-out") =>
          \A j \in 1..Len(results) : \A m \in MetricSet :
              results[j][2][m] =
                  SessionRaw(root[paradigm], FoldsWith(root[paradigm], results[j][1]),
                             results[j][1], m)

\* One fold with two sessions that load: the cross-session parser returns
\* their mean, the session-out parser over the same tree keeps both values.
C11_Witness ==
    /\ pc = "aggregate"
    /\ paradigm = "cross-session"
    /\ Len(root[paradigm]) = 1
    /\ results = [acc |-> <<Num(3, 2)>>, loss |-> <<Num(3, 2)>>]
    /\ parse_one_session_out("leave-one-session-out", root[paradigm]).out_stat =
          <<<<1, [acc |-> <<Num(1, 1)>>, loss |-> <<Num(2, 1)>>]>>,
            <<2, [acc |-> <<Num(2, 1)>>, loss |-> <<Num(1, 1)>>]>>>>


\* The values of metric m that load from fold f of a paradigm directory, for
\* the session key s (s is not looked at for the flat paradigms, which have
\* one key set for all sessions).
Loaded(name, dir, f, s, m) ==
    CASE KindOf(name) = "file" -> FoldValues(dir, <<f>>, m)
      [] name = "cross-session" -> FoldValues(dir[f], sorted(dir[f]), m)
      [] name = "leave-one-session-out" ->
            IF s \in DOMAIN dir[f] THEN FoldValues(dir[f], <<s>>, m) ELSE <<>>
      [] OTHER -> IF s \in DOMAIN dir[f] THEN LoadedValues(dir[f][s], m) ELSE <<>>

\* The folds that contribute a loaded record to the key s, in sorted order.
Contributing(name, dir, s, m) ==
    SelectSeq(sorted(dir), LAMBDA f : Loaded(name, dir, f, s, m) # <<>>)

\* A returned out_stat as a sequence of <<key, per-metric lists>>: the flat
\* one has the single key 0.
StatsOf(name, res) ==
    IF available_aggrs[name] = "aggregate_nested" THEN res ELSE <<<<0, res>>>>

\* C12: absent data adds nothing.  In what a parser returns, no entry of any
\* metric sequence is a placeholder (nan), and a key's sequence has exactly
\* as many entries as there are folds with at least one record that loaded
\* for that key: a unit whose record is absent, and a fold that is empty or
\* holds absent records only, add no entry.
C12_AbsentDataAddsNothing ==
    (pc = "aggregate") =>
        \A j \in 1..Len(StatsOf(paradigm, results)) : \A m \in MetricSet :
            LET key == StatsOf(paradigm, results)[j][1]
                seq == StatsOf(paradigm, results)[j][2][m]
            IN  /\ ~HasNaN(seq)
                /\ Len(seq) = Len(Contributing(paradigm, root[paradigm], key, m))

\* C13: the length invariant of what a parser returns.  Under each key all
\* requested metrics have sequences of one length, and that length is the
\* number of folds that contributed a loaded record to the key.
C13_LengthsAreContributingFolds ==
    (pc = "aggregate") =>
        \A j \in 1..Len(StatsOf(paradigm, results)) :
            LET key == StatsOf(paradigm, results)[j][1]
                st == StatsOf(paradigm, results)[j][2]
            IN  /\ \A m, n \in MetricSet : Len(st[m]) = Len(st[n])
                /\ \A m \in MetricSet :
                      Len(st[m]) = Cardinality(
                          {f \in DOMAIN root[paradigm] :
                              Loaded(paradigm, root[paradigm], f, key, m) # <<>>})


\* ------------------------------------------------------- traversal order
\* A session directory of within-session listed in lexicographic order of
\* its subjects' names.
SortedSubjects(subs) ==
    LET names == SortedNat({subs[j].name : j \in DOMAIN subs})
    IN  [j \in 1..Len(subs) |-> CHOOSE x \in Range(subs) : x.name = names[j]]

\* The same within-session tree, every session directory listed in
\* lexicographic order.
SortedWithin(dir) ==
    [f \in DOMAIN dir |-> [s \in DOMAIN dir[f] |-> SortedSubjects(dir[f][s])]]

\* C14: the within-session parser visits the subjects of a session in
\* lexicographic order of name, whatever order the file system enumerates
\* them in: what a run prints while it parses within-session (one line per
\* load_metrics call that fails, in call order) and what the parser returns
\* or raises are those of a walk over the same tree in lexicographic order.
C14_SubjectsInNameOrder ==
    (pc \in {"aggregate", "raised"} /\ paradigm = "within-session") =>
        LET byName == parse_within_session(paradigm, SortedWithin(root[paradigm]))
            n == Len(stdout) - Len(byName.stdout)
        IN  /\ n >= 0
            /\ SubSeq(stdout, n + 1, Len(stdout)) = byName.stdout
            /\ exc = byName.exc
            /\ pc = "aggregate" => results = byName.out_stat


\* ------------------------------------------------------- schema mismatch
\* The paradigm directory holds a file that deserializes to a record
\* lacking one of the requested metrics.
HoldsPartialRecord(name, dir) ==
    \E f \in DOMAIN dir : \E fl \in FoldFiles(name, dir[f]) :
        fl.kind = "pickle" /\ \E m \in MetricSet : ~Has(fl.data, m)

\* C15: a record that lacks a requested metric is a logged skip.  The parse
\* of a paradigm that holds such a record does not raise on it: no run ends
\* with the KeyError of the missing metric name.
C15_SchemaMismatchIsSkipped ==
    (paradigm \in DOMAIN root /\ paradigm \in KnownParadigms
        /\ HoldsPartialRecord(paradigm, root[paradigm])) =>
        exc # "KeyError: metric"


\* ------------------------------------------------- unknown root entries
\* C18: unknown-paradigm errors surface before any work.  While the root
\* holds an entry that is no known paradigm (a dot-suffixed known name
\* included), no parser has been invoked: nothing has been printed, nothing
\* parsed or aggregated, and a run that has ended has ended with the
\* unknown-paradigm error.
C18_UnknownSurfacesFirst ==
    (DOMAIN root \ KnownParadigms # {}) =>
        /\ pc \notin {"aggregate", "extend", "done"}
        /\ stdout = <<>>
        /\ aggregated = <<>>
        /\ pc = "raised" => exc = "KeyError: paradigm"

\* ------------------------------------------- session keys, nested parsers
\* The session names that occur under any fold.
AllSessions(dir) == UNION {DOMAIN dir[f] : f \in DOMAIN dir}

\* C20: over a tree with at least one fold, parse_one_session_out and
\* parse_within_session do not raise on a session that the first fold
\* lacks, and the keys of what they return are the session names that occur
\* under any fold.
C20_KeysAreAllSessions ==
    (pc \in {"aggregate", "raised"}
        /\ paradigm \in {"leave-one-session-out", "within-session"}
        /\ Len(root[paradigm]) >= 1) =>
        /\ exc # "KeyError: session"
        /\ pc = "aggregate" => Range(Keys(results)) = AllSessions(root[paradigm])


\* ================================================================ run_on_main
\* speechbrain/utils/distributed.py: the processes of one group call
\* run_on_main with the same arguments, each with its own LOCAL_RANK.

\* Processes of a group.
MaxProcs == 3

\* The values of the variables of aggregate_metrics where it takes no part.
IdleAgg ==
    /\ root = <<>>
    /\ pc = "idle"
    /\ todo = <<>>
    /\ paradigm = ""
    /\ results = <<>>
    /\ temp = <<>>
    /\ overall_stat = <<>>
    /\ returned = <<>>
    /\ exc = "none"
    /\ stdout = <<>>
    /\ aggregated = <<>>
    /\ call = <<>>
    /\ ret = <<>>

\* os.environ's LOCAL_RANK: "unset" when the variable is absent, otherwise
\* its text.
RankTexts == <<"0", "1", "2", "3">>

\* int(text) for the decimal texts in use.
int(text) == (CHOOSE j \in 1..Len(RankTexts) : RankTexts[j] = text) - 1

\* if_main_process, lines 86-93.
if_main_process(local_rank) ==
    IF local_rank # "unset"
    THEN IF local_rank = "" THEN FALSE
         ELSE IF int(local_rank) = 0 THEN TRUE ELSE FALSE
    ELSE TRUE

Procs == DOMAIN env

\* A variant of the barrier that lets every caller through at once.
ddp_barrier_unsynchronized(p) == TRUE

\* ddp_barrier, lines 116-117, seen from a process p that has entered it:
\* nothing to wait for when no group is initialized; otherwise
\* torch.distributed.barrier() returns once every process of the group has
\* entered its barrier call of the same rank in the sequence of calls.
ddp_barrier(p) ==
    ~opts.initialized \/ \A q \in Procs : barriers[q] >= barriers[p]

Exited == {"returned", "raised"}

\* Line 56 on: the main process starts func, the others enter the barrier of
\* line 64.
Enter(p) ==
    /\ at[p] = "call"
    /\ IF if_main_process(env[p])
       THEN /\ at' = [at EXCEPT ![p] = "func"]
            /\ ran' = [ran EXCEPT ![p].func = "running"]
            /\ UNCHANGED barriers
       ELSE /\ at' = [at EXCEPT ![p] = "barrier 64"]
            /\ barriers' = [barriers EXCEPT ![p] = @ + 1]
            /\ UNCHANGED ran
    /\ UNCHANGED <<env, opts, aggVars, brainVars>>

\* Lines 58-61: func ends, by return or by exception, and the finally clause
\* enters the barrier.
FuncEnds(p, how) ==
    /\ at[p] = "func"
    /\ ran' = [ran EXCEPT ![p].func = how]
    /\ at' = [at EXCEPT ![p] = "barrier 61"]
    /\ barriers' = [barriers EXCEPT ![p] = @ + 1]
    /\ UNCHANGED <<env, opts, aggVars, brainVars>>

FuncReturns == \E p \in Procs : FuncEnds(p, "returned")

FuncRaises == \E p \in Procs : FuncEnds(p, "raised")

\* Lines 65-77, from the end of the first barrier call to the next point
\* where the process runs post_func, enters a barrier or leaves.
AfterFirstBarrier(p) ==
    IF ran[p].func = "raised"
    THEN /\ at' = [at EXCEPT ![p] = "raised"]        \* the exception of func
         /\ UNCHANGED <<barriers, ran>>
    ELSE IF ~opts.post_func
    THEN /\ at' = [at EXCEPT ![p] = "returned"]
         /\ UNCHANGED <<barriers, ran>>
    ELSE IF opts.run_post_on_main \/ ~if_main_process(env[p])
    THEN /\ at' = [at EXCEPT ![p] = "post_func"]
         /\ ran' = [ran EXCEPT ![p].post = "running"]
         /\ UNCHANGED barriers
    ELSE /\ at' = [at EXCEPT ![p] = "barrier 77"]
         /\ barriers' = [barriers EXCEPT ![p] = @ + 1]
         /\ UNCHANGED ran

\* The barrier of line 61 or 64 lets the process go.
LeaveFirstBarrier ==
    \E p \in Procs :
        /\ at[p] \in {"barrier 61", "barrier 64"}
        /\ ddp_barrier(p)
        /\ AfterFirstBarrier(p)
        /\ UNCHANGED <<env, opts, aggVars, brainVars>>

\* Line 68, or lines 71-74: post_func ends; on every process without a
\* barrier when run_post_on_main, else on a non-main process whose finally
\* clause enters the barrier.
PostEnds(p, how) ==
    /\ at[p] = "post_func"
    /\ ran' = [ran EXCEPT ![p].post = how]
    /\ IF opts.run_post_on_main
       THEN /\ at' = [at EXCEPT ![p] = how]
            /\ UNCHANGED barriers
       ELSE /\ at' = [at EXCEPT ![p] = "barrier 74"]
            /\ barriers' = [barriers EXCEPT ![p] = @ + 1]
    /\ UNCHANGED <<env, opts, aggVars, brainVars>>

PostReturns == \E p \in Procs : PostEnds(p, "returned")

PostRaises == \E p \in Procs : PostEnds(p, "raised")

\* The barrier of line 74 or 77 lets the process go: it returns, or the
\* exception of post_func leaves run_on_main.
LeaveSecondBarrier ==
    \E p \in Procs :
        /\ at[p] \in {"barrier 74", "barrier 77"}
        /\ ddp_barrier(p)
        /\ at' = [at EXCEPT ![p] = IF ran[p].post = "raised" THEN "raised" ELSE "returned"]
        /\ UNCHANGED <<env, opts, barriers, ran, aggVars, brainVars>>

\* One process with LOCAL_RANK 0 and one or more with another LOCAL_RANK
\* (an empty text, or their index), all about to call run_on_main.
Groups ==
    UNION {{<<"0">> \o t : t \in [1..n -> {""} \cup {RankTexts[j] : j \in 2..Len(RankTexts)}]} :
              n \in 1..(MaxProcs - 1)}

InitDDP ==
    /\ IdleAgg
    /\ IdleBrain
    /\ env \in Groups
    /\ opts \in [initialized : BOOLEAN, post_func : BOOLEAN, run_post_on_main : BOOLEAN]
    /\ at = [p \in DOMAIN env |-> "call"]
    /\ barriers = [p \in DOMAIN env |-> 0]
    /\ ran = [p \in DOMAIN env |-> [func |-> "no", post |-> "no"]]

CallRunOnMain == \E p \in Procs : Enter(p)

NextDDP ==
    \/ CallRunOnMain
    \/ FuncReturns
    \/ FuncRaises
    \/ LeaveFirstBarrier
    \/ PostReturns
    \/ PostRaises
    \/ LeaveSecondBarrier

SpecDDP == InitDDP /\ [][NextDDP]_vars

\* C16: in an initialized group with one main process, func is run by the
\* main process only, once, and has ended there before the main process
\* leaves; and, when post_func runs on the non-main processes only, no
\* non-main process has started post_func while func has not ended on the
\* main process.
C16_PostAfterFunc ==
    opts.initialized =>
        /\ \A p \in Procs : ran[p].func # "no" => if_main_process(env[p])
        /\ \A p \in Procs :
              (if_main_process(env[p]) /\ at[p] \in Exited) =>
                  ran[p].func \in {"returned", "raised"}
        /\ \A p, q \in Procs :
              (~opts.run_post_on_main /\ ~if_main_process(env[p])
                  /\ ran[p].post # "no" /\ if_main_process(env[q])) =>
                  ran[q].func \in {"returned", "raised"}

\* Two non-main processes run post_func after func returned on the main one.
C16_Witness ==
    /\ opts.initialized /\ opts.post_func /\ ~opts.run_post_on_main
    /\ Len(env) = 3
    /\ ran[1].func = "returned"
    /\ ran[2].post = "running"
    /\ ran[3].post = "returned"
    /\ at[1] = "barrier 77"


\* C19: run_on_main leaves no process blocked.  The processes of an
\* initialized group make the same number of ddp_barrier calls on every
\* path: a process that has left run_on_main, by return or by exception,
\* has made as many barrier calls as any process of the group, so none of
\* them waits in a barrier call that the process which left never makes.
C19_NoProcessLeftBlocked ==
    opts.initialized =>
        \A p, q \in Procs : at[q] \in Exited => barriers[q] >= barriers[p]


\* ================================================================ MOABBBrain
\* recipes/MOABB/train.py: the stage ends of one call of fit, which runs a
\* TRAIN and a VALID stage for each epoch 1..number_of_epochs.

\* Epochs of a fit, checkpoints averaged, and the largest value of a
\* statistic (statistics are naturals 0..MaxValue).
MaxEpochs == 3
MaxAvg == 2
MaxValue == 1

StatValues == 0..MaxValue

\* The keys of last_eval_stats: "loss" and the keys of hparams.metrics.
StatKeys == {"loss", "acc"}

\* check_if_best, lines 204-216, for one monitored key: whether the last
\* statistics beat the best ones, and the best_eval_stats dict as the call
\* leaves it.
check_if_best(last, best, key) ==
    IF key = "loss"
    THEN IF last[key] < best[key]
         THEN [is_best |-> TRUE, best |-> [best EXCEPT ![key] = last[key]]]
         ELSE [is_best |-> FALSE, best |-> best]
    ELSE IF last[key] > best[key]
         THEN [is_best |-> TRUE, best |-> [best EXCEPT ![key] = last[key]]]
         ELSE [is_best |-> FALSE, best |-> best]

\* Lines 127-130.
is_last(e) == e > hparams.number_of_epochs - hparams.avg_models

\* Lines 133-138.
save_ckpt(e, is_best) ==
    IF hparams.test_with = "last" /\ is_last(e) THEN TRUE
    ELSE IF hparams.test_with = "best" /\ is_best THEN TRUE
    ELSE FALSE

\* on_stage_end(Stage.TRAIN, stage_loss, epoch), lines 96-97.
TrainStageEnd ==
    /\ stage = "TRAIN"
    /\ \E stage_loss \in StatValues : train_loss' = stage_loss
    /\ stage' = "VALID"
    /\ UNCHANGED <<hparams, epoch, heap, last_eval_stats, best_eval_stats, saved,
                   valid_log, ckpts, aggVars, ddpVars>>

\* on_stage_end(Stage.VALID, stage_loss, epoch), lines 98-158, and the step
\* of fit to the next epoch.  The dict built at line 102 is a new object
\* (its id is the epoch); line 119 makes best_eval_stats refer to the very
\* object last_eval_stats refers to; check_if_best writes into the object
\* best_eval_stats refers to.  Objects nothing refers to are dropped.
ValidStageEnd ==
    /\ stage = "VALID"
    /\ \E stage_loss \in StatValues, acc \in StatValues :
          LET last == epoch
              best == IF epoch = 1 THEN last ELSE best_eval_stats
              heap1 == (last :> [loss |-> stage_loss, acc |-> acc]) @@ heap
              chk == check_if_best(heap1[last], heap1[best], hparams.test_key)
              heap2 == [heap1 EXCEPT ![best] = chk.best]
          IN  /\ last_eval_stats' = last
              /\ best_eval_stats' = best
              /\ heap' = [x \in {last, best} |-> heap2[x]]
              /\ saved' = IF save_ckpt(epoch, chk.is_best)
                          THEN saved \cup {epoch} ELSE saved
              /\ valid_log' = Append(valid_log, heap1[last][hparams.test_key])
    /\ IF epoch < hparams.number_of_epochs
       THEN epoch' = epoch + 1 /\ stage' = "TRAIN"
       ELSE epoch' = epoch /\ stage' = "END"
    /\ UNCHANGED <<hparams, train_loss, ckpts, aggVars, ddpVars>>

\* on_evaluate_start, lines 185-197, called once fit has ended.  The
\* checkpointer holds nothing but what on_stage_end saved during fit, of
\* which save_and_keep_only(num_to_keep=avg_models) kept at least the
\* newest and at most avg_models; find_checkpoints returns what is kept.
\* average_checkpoints needs at least one checkpoint and raises on none.
EvaluateStart ==
    /\ stage = "END"
    /\ \E found \in SUBSET saved :
          /\ (saved # {}) => (found # {})
          /\ \A e \in saved : (\A x \in saved : x <= e) => e \in found
          /\ Cardinality(found) <= hparams.avg_models
          /\ ckpts' = found
          /\ stage' = IF found = {} THEN "RAISED" ELSE "TEST"
    /\ UNCHANGED <<hparams, epoch, train_loss, heap, last_eval_stats, best_eval_stats,
                   saved, valid_log, aggVars, ddpVars>>

InitBrain ==
    /\ IdleAgg
    /\ IdleDDP
    /\ hparams \in [test_with : {"best", "last"}, test_key : StatKeys,
                    number_of_epochs : 1..MaxEpochs, avg_models : 1..MaxAvg]
    /\ epoch = 1
    /\ stage = "TRAIN"
    /\ train_loss = 0
    /\ heap = <<>>
    /\ last_eval_stats = 0
    /\ best_eval_stats = 0
    /\ saved = {}
    /\ valid_log = <<>>
    /\ ckpts = {}

NextBrain ==
    \/ TrainStageEnd
    \/ ValidStageEnd
    \/ EvaluateStart

SpecBrain == InitBrain /\ [][NextBrain]_vars

\* The value of epoch e is the best of epochs 1..e: the lowest for 'loss',
\* the highest for any other key.
BestSoFar(log, e) ==
    \A j \in 1..e :
        IF hparams.test_key = "loss" THEN log[e] <= log[j] ELSE log[e] >= log[j]

\* C17: the checkpoint-saving rule.  For every epoch e whose VALID stage has
\* ended, a checkpoint was saved at e exactly when test_with is 'best' and
\* the value of test_key at e is the best of epochs 1..e, or test_with is
\* 'last' and e > number_of_epochs - avg_models.
C17_SavingRule ==
    \A e \in 1..Len(valid_log) :
        e \in saved <=>
            \/ hparams.test_with = "best" /\ BestSoFar(valid_log, e)
            \/ hparams.test_with = "last"
                  /\ e > hparams.number_of_epochs - hparams.avg_models


\* C21: a checkpoint exists before evaluation.  With test_with 'best', once
\* fit has ended on_stage_end has saved at least one checkpoint, and
\* on_evaluate_start finds a non-empty checkpoint set and does not fail on
\* it.
C21_CheckpointBeforeEvaluation ==
    (hparams.test_with = "best") =>
        /\ stage \in {"END", "TEST", "RAISED"} => saved # {}
        /\ stage # "RAISED"
        /\ stage = "TEST" => ckpts # {}


====
